---- MODULE Spec2Model ----
(***************************************************************************)
(* A model of Ring<T> (src/ring.h): a std::deque<T> with a capacity, a     *)
(* mutex and a condition variable.  Each member function is modelled as    *)
(* the steps it takes: acquiring its guard(s), its body under the guard    *)
(* (notify_one included), and the release of the guard(s) at return.       *)
(* The blocking pops follow condition_variable::wait / wait_for: the       *)
(* predicate is evaluated under the guard, the guard is released while     *)
(* the thread is blocked, and it is re-acquired before the predicate is    *)
(* evaluated again.  The non-blocking variant (src/include/ring.h) has the  *)
(* same members without the condition variable; its resize, the one member *)
(* whose body differs, is the call "include_resize".                       *)
(***************************************************************************)
EXTENDS Integers, Sequences, FiniteSets, TLC

\* ------------------------------------------------------------------ bounds
MaxCap == 2          \* largest capacity a ring is constructed with or resized to
MaxVal == 2          \* the values callers push are 1..MaxVal
MaxPush == 4         \* the calls a counting caller makes
NPairs == 2          \* producers (and consumers) of the stress runs

\* --------------------------------------------------------------- constants
DefaultValue == 0    \* T{} : what deque::resize(n) appends when it grows
NoThread == 0        \* an unlocked std::mutex has no owner

Rings == {"a", "b"}
Threads == 1..(2 * NPairs)
Values == 1..MaxVal

VARIABLES
    storage,     \* storage[r]   : the deque base of ring r, front first
    capacity,    \* capacity[r]  : _capacity of ring r
    mutex,       \* mutex[r]     : the thread that owns r's _mutex, or NoThread
    cvWaiters,   \* cvWaiters[r] : the threads blocked in r's _cv
    stop,        \* the caller's std::atomic_bool handed to pop_*_wait(stop)
    pc,          \* pc[t]        : where thread t is in its current call
    op,          \* op[t]        : the call thread t is executing
    ret,         \* ret[t]       : the call's result, <<>> for none / nullopt
    wake,        \* wake[t]      : why t last left the condition variable
    pre,         \* pre[t]       : the state of the rings t had locked when
                 \*                its body ran (for stating postconditions)
    prog,        \* prog[t]      : the caller: its role (the calls thread t may
                 \*                make) and how many calls it makes (0: any
                 \*                number, results dropped)
    log          \* log[t]       : what a counting caller has pushed / received

vars == <<storage, capacity, mutex, cvWaiters, stop, pc, op, ret, wake, pre,
          prog, log>>

\* ------------------------------------------------------------- deque base
RECURSIVE Fill(_, _)
Fill(v, n) == IF n <= 0 THEN <<>> ELSE <<v>> \o Fill(v, n - 1)

Front(s) == s[1]
Back(s) == s[Len(s)]
DequePushFront(s, v) == <<v>> \o s
DequePushBack(s, v) == s \o <<v>>
DequePopFront(s) == SubSeq(s, 2, Len(s))
DequePopBack(s) == SubSeq(s, 1, Len(s) - 1)
DequeResize(s, n) ==
    IF n <= Len(s) THEN SubSeq(s, 1, n)
    ELSE s \o Fill(DefaultValue, n - Len(s))

SeqsUpTo(S, n) == UNION {[1..k -> S] : k \in 0..n}

\* ------------------------------------------------------------------ calls
\* arg is the value of a push or the size of a resize, range the elements
\* [first, last) of an assign, that the argument of swap and operator=
NoOp == [name |-> "none", ring |-> "a", that |-> "a", arg |-> 0, range |-> <<>>]
MkCall(n, r, th, x, rg) ==
    [name |-> n, ring |-> r, that |-> th, arg |-> x, range |-> rg]

PushNames == {"push_front", "emplace_front", "push_back", "emplace_back"}
PopNames == {"pop_front", "pop_back"}
StopWaitNames == {"pop_front_wait_stop", "pop_back_wait_stop"}
WaitNames == {"pop_front_wait", "pop_back_wait"}
PairNames == {"swap", "operator="}
FrontPops == {"pop_front", "pop_front_wait", "pop_front_wait_stop"}
GuardNames == PushNames \cup PopNames \cup StopWaitNames \cup WaitNames
                  \cup {"resize", "include_resize", "shrink_to_fit", "assign"}
\* the calls that store to _capacity
CapacityWriteNames == {"resize", "include_resize", "shrink_to_fit", "assign"}

Calls ==
    {MkCall(n, r, r, v, <<>>) : n \in PushNames, r \in Rings, v \in Values}
    \cup {MkCall(n, r, r, 0, <<>>) :
            n \in PopNames \cup StopWaitNames \cup WaitNames
                  \cup {"shrink_to_fit", "max_size"}, r \in Rings}
    \cup {MkCall("resize", r, r, n, <<>>) : r \in Rings, n \in 0..MaxCap}
    \cup {MkCall("assign", r, r, 0, rg) :
            r \in Rings, rg \in SeqsUpTo(Values, MaxCap)}
    \cup {MkCall(n, r, th, 0, <<>>) : n \in PairNames, r \in Rings, th \in Rings}

\* -------------------------------------------------------------- snapshots
NoPre == [storage |-> [r \in Rings |-> <<>>], capacity |-> [r \in Rings |-> 0],
          stop |-> FALSE]
Snapshot(t) ==
    [storage  |-> [r \in Rings |-> IF mutex[r] = t THEN storage[r] ELSE <<>>],
     capacity |-> [r \in Rings |-> IF mutex[r] = t THEN capacity[r] ELSE 0],
     stop     |-> IF pc[t] = "timedout" THEN stop ELSE FALSE]

\* ----------------------------------------------------------- construction
\* Ring(size_t capacity) and Ring(initializer_list) / Ring(first, last)
Constructed ==
    {[storage |-> <<>>, capacity |-> c] : c \in 0..MaxCap}
    \cup {[storage |-> s, capacity |-> Len(s)] : s \in SeqsUpTo(Values, MaxCap)}

\* Ring(size_t capacity) and the list Ring{1, ..., MaxVal}
ConstructedPlain ==
    {[storage |-> <<>>, capacity |-> c] : c \in 0..MaxCap}
    \cup {[storage |-> [i \in 1..MaxVal |-> i], capacity |-> MaxVal]}

InitRings(S) ==
    \E f \in [Rings -> S] :
        /\ storage = [r \in Rings |-> f[r].storage]
        /\ capacity = [r \in Rings |-> f[r].capacity]

\* the threads T of a run have made no call yet
InitIdle(T) ==
    /\ pc = [t \in T |-> "idle"]
    /\ op = [t \in T |-> NoOp]
    /\ log = [t \in T |-> <<>>]
    /\ mutex = [r \in Rings |-> NoThread]
    /\ cvWaiters = [r \in Rings |-> {}]
    /\ ret = [t \in T |-> <<>>]
    /\ wake = [t \in T |-> "none"]
    /\ pre = [t \in T |-> NoPre]

\* The callers.  "any" makes any call on either ring, "producer" pushes 1 at
\* the back of ring a, "back_pushes" / "front_pushes" push at one end of ring
\* a, "pops" pops at either end of the thread's own ring, a role that is the
\* name of a member function calls that function on ring a, "produce_front" /
\* "produce_back" push the thread's own number, and "swap_ab", "copy_ab",
\* "swap_ba", "copy_ba" are a.swap(b), a = b, b.swap(a), b = a.  "resizes" /
\* "include_resizes" mix pushes with resize of the blocking / non-blocking
\* variant, "assigns" mixes pushes with assign, and "shrinks" makes a push,
\* then shrink_to_fit, then a push.  "self_pairs" is a.swap(a) or a = a, and
\* "fills" makes ring a non-empty in any of the ways there are.
PushValues == 1..MaxPush
ProducerCalls == {MkCall("push_back", "a", "a", 1, <<>>)}
BackPushes == {MkCall(n, "a", "a", v, <<>>) :
                 n \in {"push_back", "emplace_back"}, v \in PushValues}
FrontPushes == {MkCall(n, "a", "a", v, <<>>) :
                  n \in {"push_front", "emplace_front"}, v \in PushValues}

OwnRing(t) == IF t = 1 THEN "a" ELSE "b"
PopCalls(t) == {MkCall(n, OwnRing(t), OwnRing(t), 0, <<>>) : n \in PopNames}
WaitCalls(n) == {MkCall(n, "a", "a", 0, <<>>)}
PushCalls(n) == {MkCall(n, "a", "a", v, <<>>) : v \in Values}
PairCalls(n, r, th) == {MkCall(n, r, th, 0, <<>>)}
ResizeCalls(n) ==
    {MkCall(n, "a", "a", k, <<>>) : k \in 0..(MaxCap + 1)}
    \cup PushCalls("push_back")
AssignCalls ==
    {MkCall("assign", "a", "a", 0, rg) : rg \in SeqsUpTo(Values, MaxCap)}
    \cup PushCalls("push_back")
SelfPairCalls == {MkCall(n, "a", "a", 0, <<>>) : n \in PairNames}
FillCalls ==
    {MkCall(n, "a", "a", v, <<>>) : n \in PushNames, v \in Values}
    \cup {MkCall("assign", "a", "a", 0, rg) :
            rg \in SeqsUpTo(Values, MaxCap) \ {<<>>}}
    \cup {MkCall(n, "a", "b", 0, <<>>) : n \in PairNames}
ShrinkCalls(t) ==
    IF Len(log[t]) = 1 THEN {MkCall("shrink_to_fit", "a", "a", 0, <<>>)}
    ELSE {MkCall(n, "a", "a", v, <<>>) : n \in PushNames, v \in Values}

CallsOf(t) ==
    CASE prog[t].role = "any" -> Calls
      [] prog[t].role = "producer" -> ProducerCalls
      [] prog[t].role = "back_pushes" -> BackPushes
      [] prog[t].role = "front_pushes" -> FrontPushes
      [] prog[t].role = "pops" -> PopCalls(t)
      [] prog[t].role \in WaitNames \cup StopWaitNames \cup {"max_size"} ->
            WaitCalls(prog[t].role)
      [] prog[t].role = "resizes" -> ResizeCalls("resize")
      [] prog[t].role = "include_resizes" -> ResizeCalls("include_resize")
      [] prog[t].role = "assigns" -> AssignCalls
      [] prog[t].role = "shrinks" -> ShrinkCalls(t)
      [] prog[t].role = "self_pairs" -> SelfPairCalls
      [] prog[t].role = "fills" -> FillCalls
      [] prog[t].role \in PushNames -> PushCalls(prog[t].role)
      [] prog[t].role = "produce_front" ->
            {MkCall("push_front", "a", "a", t, <<>>)}
      [] prog[t].role = "produce_back" ->
            {MkCall("push_back", "a", "a", t, <<>>)}
      [] prog[t].role = "swap_ab" -> PairCalls("swap", "a", "b")
      [] prog[t].role = "copy_ab" -> PairCalls("operator=", "a", "b")
      [] prog[t].role = "swap_ba" -> PairCalls("swap", "b", "a")
      [] prog[t].role = "copy_ba" -> PairCalls("operator=", "b", "a")
      [] OTHER -> {}

\* The general runs: thread 1 makes any call, any number of times; thread 2
\* is a producer.

Init ==
    /\ InitRings(Constructed)
    /\ InitIdle(1..2)
    /\ stop \in BOOLEAN
    /\ prog = [t \in 1..2 |-> IF t = 1 THEN [role |-> "any", limit |-> 0]
                              ELSE [role |-> "producer", limit |-> 0]]

\* ------------------------------------------------------------ call / lock
Invoke(t) ==
    /\ pc[t] = "idle"
    /\ prog[t].limit = 0 \/ Len(log[t]) < prog[t].limit
    /\ \E c \in CallsOf(t) : op' = [op EXCEPT ![t] = c]
    /\ pc' = [pc EXCEPT ![t] = "call"]
    /\ UNCHANGED <<storage, capacity, mutex, cvWaiters, stop, ret, wake, pre,
                   prog, log>>

\* lock_guard lock(_mutex) / unique_lock lock(_mutex)
LockGuard(t) ==
    /\ UNCHANGED <<prog, log>>
    /\ pc[t] = "call"
    /\ op[t].name \in GuardNames
    /\ mutex[op[t].ring] = NoThread
    /\ mutex' = [mutex EXCEPT ![op[t].ring] = t]
    /\ pc' = [pc EXCEPT ![t] = "locked"]
    /\ UNCHANGED <<storage, capacity, cvWaiters, stop, op, ret, wake, pre>>

\* mutant of the self test: the call goes on to lock its own guard twice
SelfLock(t) ==
    /\ pc[t] = "call"
    /\ op[t].name \in PairNames
    /\ op[t].ring = op[t].that
    /\ mutex[op[t].ring] = NoThread
    /\ mutex' = [mutex EXCEPT ![op[t].ring] = t]
    /\ UNCHANGED <<storage, capacity, cvWaiters, stop, pc, op, ret, wake, pre,
                   prog, log>>

\* if (this == &that) return;
SelfReturn(t) ==
    /\ UNCHANGED <<prog, log>>
    /\ pc[t] = "call"
    /\ op[t].name \in PairNames
    /\ op[t].ring = op[t].that
    /\ pc' = [pc EXCEPT ![t] = "ret"]
    /\ pre' = [pre EXCEPT ![t] = Snapshot(t)]
    /\ UNCHANGED <<storage, capacity, mutex, cvWaiters, stop, op, ret, wake>>

\* mutant of the joint acquisition: two lock_guards, this first, that second
LockInTurn(t) ==
    /\ pc[t] = "call"
    /\ op[t].name \in PairNames
    /\ op[t].ring # op[t].that
    /\ IF mutex[op[t].ring] # t
       THEN /\ mutex[op[t].ring] = NoThread
            /\ mutex' = [mutex EXCEPT ![op[t].ring] = t]
            /\ pc' = pc
       ELSE /\ mutex[op[t].that] = NoThread
            /\ mutex' = [mutex EXCEPT ![op[t].that] = t]
            /\ pc' = [pc EXCEPT ![t] = "locked"]
    /\ UNCHANGED <<storage, capacity, cvWaiters, stop, op, ret, wake, pre,
                   prog, log>>

\* std::scoped_lock lock(_mutex, that._mutex): std::lock's deadlock-avoiding
\* acquisition; the thread ends up owning both mutexes or neither.
ScopedLock(t) ==
    /\ UNCHANGED <<prog, log>>
    /\ pc[t] = "call"
    /\ op[t].name \in PairNames
    /\ op[t].ring # op[t].that
    /\ mutex[op[t].ring] = NoThread
    /\ mutex[op[t].that] = NoThread
    /\ mutex' = [mutex EXCEPT ![op[t].ring] = t, ![op[t].that] = t]
    /\ pc' = [pc EXCEPT ![t] = "locked"]
    /\ UNCHANGED <<storage, capacity, cvWaiters, stop, op, ret, wake, pre>>

\* the guards' destructors at the end of the call
Release(t) == mutex' = [r \in Rings |-> IF mutex[r] = t THEN NoThread ELSE mutex[r]]

\* what a counting caller notes of a call: the value pushed, the result popped
Outcome(t) == IF op[t].name \in PushNames THEN <<op[t].arg>> ELSE ret[t]

\* the call returns and the caller goes on to its next call
Return(t) ==
    /\ pc[t] = "ret"
    /\ Release(t)
    /\ log' = IF prog[t].limit = 0 THEN log
              ELSE [log EXCEPT ![t] = Append(@, Outcome(t))]
    /\ UNCHANGED prog
    /\ pc' = [pc EXCEPT ![t] = "idle"]
    /\ op' = [op EXCEPT ![t] = NoOp]
    /\ ret' = [ret EXCEPT ![t] = <<>>]
    /\ wake' = [wake EXCEPT ![t] = "none"]
    /\ pre' = [pre EXCEPT ![t] = NoPre]
    /\ UNCHANGED <<storage, capacity, cvWaiters, stop>>

\* --------------------------------------------------------------- max_size
\* the value thread w, inside its guard, is about to store to _capacity
CapacityWritten(w) ==
    LET r == op[w].ring IN
    CASE op[w].name \in {"resize", "include_resize"} -> op[w].arg
      [] op[w].name = "shrink_to_fit" -> Len(storage[r])
      [] op[w].name = "assign" ->
            IF Len(op[w].range) > capacity[r] THEN Len(op[w].range)
            ELSE capacity[r]
      [] OTHER -> capacity[r]

\* the threads whose store to r's _capacity the unguarded read of t can overlap
Racing(t, r) ==
    {w \in DOMAIN pc \ {t} :
        /\ mutex[r] = w /\ pc[w] = "locked"
        /\ op[w].ring = r /\ op[w].name \in CapacityWriteNames}

\* return _capacity; without the guard: a read that overlaps a store made
\* under the guard is a data race, and yields the value before or after it.
MaxSize(t) ==
    /\ UNCHANGED <<prog, log>>
    /\ pc[t] = "call"
    /\ op[t].name = "max_size"
    /\ \E v \in {capacity[op[t].ring]}
                \cup {CapacityWritten(w) : w \in Racing(t, op[t].ring)} :
        ret' = [ret EXCEPT ![t] = <<v>>]
    /\ pc' = [pc EXCEPT ![t] = "ret"]
    /\ pre' = [pre EXCEPT ![t] = Snapshot(t)]
    /\ UNCHANGED <<storage, capacity, mutex, cvWaiters, stop, op, wake>>

\* ------------------------------------------------------------ ring bodies
\* mutant of resize: the elements are dropped from the front
RingResizeDropsFront(s, cap, n) ==
    IF cap > n /\ n <= Len(s) THEN SubSeq(s, Len(s) - n + 1, Len(s))
    ELSE IF cap > n THEN DequeResize(s, n) ELSE s

RingResize(s, cap, n) == IF cap > n THEN DequeResize(s, n) ELSE s

\* src/include/ring.h: _capacity = size; deque::resize(size);
IncludeRingResize(s, cap, n) == DequeResize(s, n)

\* mutants of the two pushes: the overflow is taken from the wrong end
RingPushFrontEvictsFront(s, cap, v) ==
    LET s1 == DequePushFront(s, v)
    IN  IF Len(s1) > cap THEN DequePopFront(s1) ELSE s1

RingPushBackEvictsBack(s, cap, v) ==
    LET s1 == DequePushBack(s, v)
    IN  IF Len(s1) > cap THEN DequePopBack(s1) ELSE s1

RingPushFront(s, cap, v) ==
    LET s1 == DequePushFront(s, v)
    IN  IF Len(s1) > cap THEN DequePopBack(s1) ELSE s1

RingPushBack(s, cap, v) ==
    LET s1 == DequePushBack(s, v)
    IN  IF Len(s1) > cap THEN DequePopFront(s1) ELSE s1

RingPush(n, s, cap, v) ==
    IF n \in {"push_front", "emplace_front"} THEN RingPushFront(s, cap, v)
    ELSE RingPushBack(s, cap, v)

\* mutant of assign: the capacity is left as it is
RingAssignKeepsCapacity(cap, rg) == cap

RingAssignCapacity(cap, rg) == IF Len(rg) > cap THEN Len(rg) ELSE cap

\* mutant of the pops: the element is taken from the other end
PopOtherEnd(n, s) ==
    IF n \in FrontPops
    THEN [value |-> Back(s), rest |-> DequePopBack(s)]
    ELSE [value |-> Front(s), rest |-> DequePopFront(s)]

\* T value = deque::front(); deque::pop_front();  (or back / pop_back)
PopEnd(n, s) ==
    IF n \in FrontPops
    THEN [value |-> Front(s), rest |-> DequePopFront(s)]
    ELSE [value |-> Back(s), rest |-> DequePopBack(s)]

\* mutant of notify_one: the notification is left out
NotifyNobody(t, r) ==
    /\ pc' = [pc EXCEPT ![t] = "ret"]
    /\ UNCHANGED <<cvWaiters, wake>>

\* _cv.notify_one() by thread t, which then reaches the end of its call
NotifyOne(t, r) ==
    \/ /\ cvWaiters[r] = {}
       /\ pc' = [pc EXCEPT ![t] = "ret"]
       /\ UNCHANGED <<cvWaiters, wake>>
    \/ \E w \in cvWaiters[r] :
       /\ cvWaiters' = [cvWaiters EXCEPT ![r] = @ \ {w}]
       /\ pc' = [pc EXCEPT ![t] = "ret", ![w] = "woken"]
       /\ wake' = [wake EXCEPT ![w] = "notify"]

Resize(t) ==
    /\ UNCHANGED <<prog, log>>
    /\ pc[t] = "locked"
    /\ op[t].name = "resize"
    /\ LET r == op[t].ring IN
        /\ storage' = [storage EXCEPT ![r] = RingResize(@, capacity[r], op[t].arg)]
        /\ capacity' = [capacity EXCEPT ![r] = op[t].arg]
    /\ pc' = [pc EXCEPT ![t] = "ret"]
    /\ pre' = [pre EXCEPT ![t] = Snapshot(t)]
    /\ UNCHANGED <<mutex, cvWaiters, stop, op, ret, wake>>

\* resize of the non-blocking variant
IncludeResize(t) ==
    /\ UNCHANGED <<prog, log>>
    /\ pc[t] = "locked"
    /\ op[t].name = "include_resize"
    /\ LET r == op[t].ring IN
        /\ storage' = [storage EXCEPT
                         ![r] = IncludeRingResize(@, capacity[r], op[t].arg)]
        /\ capacity' = [capacity EXCEPT ![r] = op[t].arg]
    /\ pc' = [pc EXCEPT ![t] = "ret"]
    /\ pre' = [pre EXCEPT ![t] = Snapshot(t)]
    /\ UNCHANGED <<mutex, cvWaiters, stop, op, ret, wake>>

\* push_front (both overloads), emplace_front, push_back (both), emplace_back
Push(t) ==
    /\ UNCHANGED <<prog, log>>
    /\ pc[t] = "locked"
    /\ op[t].name \in PushNames
    /\ LET r == op[t].ring IN
        /\ storage' = [storage EXCEPT
                         ![r] = RingPush(op[t].name, @, capacity[r], op[t].arg)]
        /\ NotifyOne(t, r)
    /\ pre' = [pre EXCEPT ![t] = Snapshot(t)]
    /\ UNCHANGED <<capacity, mutex, stop, op, ret>>

\* mutant of shrink_to_fit: only the deque is compacted
ShrinkKeepsCapacity(t) ==
    /\ UNCHANGED <<prog, log>>
    /\ pc[t] = "locked"
    /\ op[t].name = "shrink_to_fit"
    /\ pc' = [pc EXCEPT ![t] = "ret"]
    /\ pre' = [pre EXCEPT ![t] = Snapshot(t)]
    /\ UNCHANGED <<storage, capacity, mutex, cvWaiters, stop, op, ret, wake>>

\* deque::shrink_to_fit(); _capacity = deque::size();
ShrinkToFit(t) ==
    /\ UNCHANGED <<prog, log>>
    /\ pc[t] = "locked"
    /\ op[t].name = "shrink_to_fit"
    /\ capacity' = [capacity EXCEPT ![op[t].ring] = Len(storage[op[t].ring])]
    /\ pc' = [pc EXCEPT ![t] = "ret"]
    /\ pre' = [pre EXCEPT ![t] = Snapshot(t)]
    /\ UNCHANGED <<storage, mutex, cvWaiters, stop, op, ret, wake>>

\* the element is taken from the named end and the call is about to return
Take(t) ==
    LET r == op[t].ring
        e == PopEnd(op[t].name, storage[r])
    IN  /\ ret' = [ret EXCEPT ![t] = <<e.value>>]
        /\ storage' = [storage EXCEPT ![r] = e.rest]
        /\ pc' = [pc EXCEPT ![t] = "ret"]
        /\ pre' = [pre EXCEPT ![t] = Snapshot(t)]

\* return std::nullopt
ReturnNullopt(t) ==
    /\ ret' = [ret EXCEPT ![t] = <<>>]
    /\ pc' = [pc EXCEPT ![t] = "ret"]
    /\ pre' = [pre EXCEPT ![t] = Snapshot(t)]
    /\ UNCHANGED storage

\* pop_front() / pop_back()
Pop(t) ==
    /\ UNCHANGED <<prog, log>>
    /\ pc[t] = "locked"
    /\ op[t].name \in PopNames
    /\ IF storage[op[t].ring] = <<>> THEN ReturnNullopt(t) ELSE Take(t)
    /\ UNCHANGED <<capacity, mutex, cvWaiters, stop, op, wake>>

\* wait / wait_for evaluate the predicate under the guard; when it is false
\* the thread releases the guard and blocks in the condition variable.
WaitPred(t) ==
    /\ UNCHANGED <<prog, log>>
    /\ pc[t] = "locked"
    /\ op[t].name \in WaitNames \cup StopWaitNames
    /\ LET r == op[t].ring IN
        IF storage[r] # <<>>
        THEN /\ Take(t)
             /\ UNCHANGED <<mutex, cvWaiters>>
        ELSE /\ mutex' = [mutex EXCEPT ![r] = NoThread]
             /\ cvWaiters' = [cvWaiters EXCEPT ![r] = @ \cup {t}]
             /\ pc' = [pc EXCEPT ![t] = "waiting"]
             /\ UNCHANGED <<storage, ret, pre>>
    /\ UNCHANGED <<capacity, stop, op, wake>>

\* a blocked thread may wake without a notification
Spurious(t) ==
    /\ UNCHANGED <<prog, log>>
    /\ pc[t] = "waiting"
    /\ cvWaiters' = [cvWaiters EXCEPT ![op[t].ring] = @ \ {t}]
    /\ pc' = [pc EXCEPT ![t] = "woken"]
    /\ wake' = [wake EXCEPT ![t] = "spurious"]
    /\ UNCHANGED <<storage, capacity, mutex, stop, op, ret, pre>>

\* the 300ms / 100ms of wait_for elapse
Timeout(t) ==
    /\ UNCHANGED <<prog, log>>
    /\ pc[t] = "waiting"
    /\ op[t].name \in StopWaitNames
    /\ cvWaiters' = [cvWaiters EXCEPT ![op[t].ring] = @ \ {t}]
    /\ pc' = [pc EXCEPT ![t] = "woken"]
    /\ wake' = [wake EXCEPT ![t] = "timeout"]
    /\ UNCHANGED <<storage, capacity, mutex, stop, op, ret, pre>>

\* a woken thread re-acquires the guard before wait / wait_for goes on
Reacquire(t) ==
    /\ UNCHANGED <<prog, log>>
    /\ pc[t] = "woken"
    /\ mutex[op[t].ring] = NoThread
    /\ mutex' = [mutex EXCEPT ![op[t].ring] = t]
    /\ pc' = [pc EXCEPT ![t] = IF wake[t] = "timeout" THEN "timedout" ELSE "locked"]
    /\ UNCHANGED <<storage, capacity, cvWaiters, stop, op, ret, wake, pre>>

\* wait_for returns the predicate's value after a timeout: true leaves the
\* loop, false reaches `else if (!stop) return std::nullopt;`, and otherwise
\* the for (;;) loop calls wait_for again.
TimedOut(t) ==
    /\ UNCHANGED <<prog, log>>
    /\ pc[t] = "timedout"
    /\ IF storage[op[t].ring] # <<>> THEN Take(t)
       ELSE IF ~stop THEN ReturnNullopt(t)
       ELSE /\ pc' = [pc EXCEPT ![t] = "locked"]
            /\ UNCHANGED <<storage, ret, pre>>
    /\ UNCHANGED <<capacity, mutex, cvWaiters, stop, op, wake>>

\* std::deque<T>::swap(that)
Swap(t) ==
    /\ UNCHANGED <<prog, log>>
    /\ pc[t] = "locked"
    /\ op[t].name = "swap"
    /\ storage' = [storage EXCEPT ![op[t].ring] = storage[op[t].that],
                                  ![op[t].that] = storage[op[t].ring]]
    /\ pc' = [pc EXCEPT ![t] = "ret"]
    /\ pre' = [pre EXCEPT ![t] = Snapshot(t)]
    /\ UNCHANGED <<capacity, mutex, cvWaiters, stop, op, ret, wake>>

Assign(t) ==
    /\ UNCHANGED <<prog, log>>
    /\ pc[t] = "locked"
    /\ op[t].name = "assign"
    /\ storage' = [storage EXCEPT ![op[t].ring] = op[t].range]
    /\ capacity' = [capacity EXCEPT
                      ![op[t].ring] = RingAssignCapacity(@, op[t].range)]
    /\ pc' = [pc EXCEPT ![t] = "ret"]
    /\ pre' = [pre EXCEPT ![t] = Snapshot(t)]
    /\ UNCHANGED <<mutex, cvWaiters, stop, op, ret, wake>>

\* mutant of copy assignment: the capacity is copied too
CopyAssignWithCapacity(t) ==
    /\ UNCHANGED <<prog, log>>
    /\ pc[t] = "locked"
    /\ op[t].name = "operator="
    /\ storage' = [storage EXCEPT ![op[t].ring] = storage[op[t].that]]
    /\ capacity' = [capacity EXCEPT ![op[t].ring] = capacity[op[t].that]]
    /\ pc' = [pc EXCEPT ![t] = "ret"]
    /\ pre' = [pre EXCEPT ![t] = Snapshot(t)]
    /\ UNCHANGED <<mutex, cvWaiters, stop, op, ret, wake>>

\* std::deque<T>::operator=(that)
CopyAssign(t) ==
    /\ UNCHANGED <<prog, log>>
    /\ pc[t] = "locked"
    /\ op[t].name = "operator="
    /\ storage' = [storage EXCEPT ![op[t].ring] = storage[op[t].that]]
    /\ pc' = [pc EXCEPT ![t] = "ret"]
    /\ pre' = [pre EXCEPT ![t] = Snapshot(t)]
    /\ UNCHANGED <<capacity, mutex, cvWaiters, stop, op, ret, wake>>

\* the owner of the std::atomic_bool stores to it
SetStop ==
    /\ UNCHANGED <<prog, log>>
    /\ stop' = ~stop
    /\ UNCHANGED <<storage, capacity, mutex, cvWaiters, pc, op, ret, wake, pre>>

\* ---------------------------------------------------------- specification
Next ==
    \/ \E t \in DOMAIN pc :
        \/ Invoke(t)
        \/ LockGuard(t)
        \/ ScopedLock(t)
        \/ SelfReturn(t)
        \/ MaxSize(t)
        \/ Resize(t)
        \/ Push(t)
        \/ ShrinkToFit(t)
        \/ Pop(t)
        \/ WaitPred(t)
        \/ Spurious(t)
        \/ Timeout(t)
        \/ Reacquire(t)
        \/ TimedOut(t)
        \/ Swap(t)
        \/ Assign(t)
        \/ CopyAssign(t)
        \/ Return(t)
    \/ SetStop

Spec == Init /\ [][Next]_vars

\* ------------------------------------------------------- counting pushes
\* A caller constructs Ring(c) and makes MaxPush pushes at one end of it,
\* noting each value it pushed.
InitPush ==
    /\ \E c \in 0..(MaxCap + 1) :
        /\ storage = [r \in Rings |-> <<>>]
        /\ capacity = [r \in Rings |-> c]
    /\ InitIdle(1..1)
    /\ stop = FALSE
    /\ \E role \in {"back_pushes", "front_pushes"} :
        prog = [t \in 1..1 |-> [role |-> role, limit |-> MaxPush]]

NextPush ==
    \E t \in DOMAIN pc :
        \/ Invoke(t)
        \/ LockGuard(t)
        \/ Push(t)
        \/ Return(t)

SpecPush == InitPush /\ [][NextPush]_vars

\* ------------------------------------------------------- non-blocking pops
\* Two callers, each popping at either end of its own constructed ring.
InitPop ==
    /\ InitRings(Constructed)
    /\ InitIdle(1..2)
    /\ stop = FALSE
    /\ prog = [t \in 1..2 |-> [role |-> "pops", limit |-> 0]]

NextPop ==
    \E t \in DOMAIN pc :
        \/ Invoke(t)
        \/ LockGuard(t)
        \/ Pop(t)
        \/ Return(t)

SpecPop == InitPop /\ [][NextPop]_vars

\* --------------------------------------------------------------- fairness
\* The scheduler runs every thread that can take a step, a mutex that is
\* free again and again is eventually acquired, and time passes.
Step(t) ==
    /\ t \in DOMAIN pc
    /\ \/ Invoke(t)
       \/ LockGuard(t)
       \/ ScopedLock(t)
       \/ SelfReturn(t)
       \/ Push(t)
       \/ Assign(t)
       \/ WaitPred(t)
       \/ Reacquire(t)
       \/ TimedOut(t)
       \/ Swap(t)
       \/ CopyAssign(t)
       \/ Return(t)

Elapse(t) == t \in DOMAIN pc /\ Timeout(t)

FairSteps(T) == \A t \in T : SF_vars(Step(t))
FairTime(T) == \A t \in T : WF_vars(Elapse(t))

\* ---------------------------------------------- one consumer, one producer
\* Thread 1 makes two calls of one blocking pop on ring a; thread 2 makes one
\* push on ring a, or none; the owner of the flag stores to it at any time.
InitWait ==
    /\ \E x \in ConstructedPlain :
        /\ storage = [r \in Rings |-> IF r = "a" THEN x.storage ELSE <<>>]
        /\ capacity = [r \in Rings |-> IF r = "a" THEN x.capacity ELSE 0]
    /\ InitIdle(1..2)
    /\ stop \in BOOLEAN
    /\ \E w \in WaitNames \cup StopWaitNames, p \in PushNames \cup {"none"} :
        prog = [t \in 1..2 |-> IF t = 1 THEN [role |-> w, limit |-> 2]
                              ELSE [role |-> p, limit |-> 1]]

NextWait ==
    \/ \E t \in DOMAIN pc :
        \/ Invoke(t)
        \/ LockGuard(t)
        \/ Push(t)
        \/ WaitPred(t)
        \/ Spurious(t)
        \/ Timeout(t)
        \/ Reacquire(t)
        \/ TimedOut(t)
        \/ Return(t)
    \/ SetStop

SpecWait == InitWait /\ [][NextWait]_vars /\ FairSteps(1..2) /\ FairTime(1..2)

\* ---------------------------------------------- producers and consumers
\* NPairs producers each push their own number at one end of ring a, and
\* NPairs consumers each make one blocking pop at the same end.
Producers == 1..NPairs
Consumers == (NPairs + 1)..(2 * NPairs)

InitStress ==
    /\ \E c \in NPairs..(NPairs + 1) :
        /\ storage = [r \in Rings |-> <<>>]
        /\ capacity = [r \in Rings |-> IF r = "a" THEN c ELSE 0]
    /\ InitIdle(Threads)
    /\ stop = FALSE
    /\ \E e \in {<<"produce_front", "pop_front_wait">>,
                  <<"produce_back", "pop_back_wait">>} :
        prog = [t \in Threads |->
                  [role |-> IF t \in Producers THEN e[1] ELSE e[2], limit |-> 1]]

NextStress ==
    \E t \in DOMAIN pc :
        \/ Invoke(t)
        \/ LockGuard(t)
        \/ Push(t)
        \/ WaitPred(t)
        \/ Spurious(t)
        \/ Reacquire(t)
        \/ Return(t)

SpecStress == InitStress /\ [][NextStress]_vars /\ FairSteps(Threads)

\* ------------------------------------------------- swaps in opposite order
\* Thread 1 runs a.swap(b) or a = b twice while thread 2 runs b.swap(a) or
\* b = a twice.
InitSwap ==
    /\ InitRings(ConstructedPlain)
    /\ InitIdle(1..2)
    /\ stop = FALSE
    /\ \E r1 \in {"swap_ab", "copy_ab"}, r2 \in {"swap_ba", "copy_ba"} :
        prog = [t \in 1..2 |-> IF t = 1 THEN [role |-> r1, limit |-> 2]
                              ELSE [role |-> r2, limit |-> 2]]

NextSwap ==
    \E t \in DOMAIN pc :
        \/ Invoke(t)
        \/ ScopedLock(t)
        \/ Swap(t)
        \/ CopyAssign(t)
        \/ Return(t)

SpecSwap == InitSwap /\ [][NextSwap]_vars /\ FairSteps(1..2)

\* ------------------------------------------------------ a single caller
\* One caller on ring a, constructed in any way: it mixes pushes with resize
\* (of either variant) or with assign, in any number, or it makes a push,
\* shrink_to_fit and a push.  With a single thread the condition variable
\* has no waiter, so the pushes of the two variants do the same.
InitSolo ==
    /\ \E x \in Constructed :
        /\ storage = [r \in Rings |-> IF r = "a" THEN x.storage ELSE <<>>]
        /\ capacity = [r \in Rings |-> IF r = "a" THEN x.capacity ELSE 0]
    /\ InitIdle(1..1)
    /\ stop = FALSE
    /\ \E p \in {[role |-> "resizes", limit |-> 0],
                  [role |-> "include_resizes", limit |-> 0],
                  [role |-> "assigns", limit |-> 0],
                  [role |-> "shrinks", limit |-> 3]} :
        prog = [t \in 1..1 |-> p]

NextSolo ==
    \E t \in DOMAIN pc :
        \/ Invoke(t)
        \/ LockGuard(t)
        \/ Resize(t)
        \/ IncludeResize(t)
        \/ Push(t)
        \/ ShrinkToFit(t)
        \/ Assign(t)
        \/ Return(t)

SpecSolo == InitSolo /\ [][NextSolo]_vars

\* ------------------------------------------- max_size against the writers
\* Thread 1 calls max_size() on ring a while thread 2 pushes and resizes it.
InitGuard ==
    /\ \E x \in ConstructedPlain :
        /\ storage = [r \in Rings |-> IF r = "a" THEN x.storage ELSE <<>>]
        /\ capacity = [r \in Rings |-> IF r = "a" THEN x.capacity ELSE 0]
    /\ InitIdle(1..2)
    /\ stop = FALSE
    /\ prog = [t \in 1..2 |-> IF t = 1 THEN [role |-> "max_size", limit |-> 0]
                              ELSE [role |-> "resizes", limit |-> 0]]

NextGuard ==
    \E t \in DOMAIN pc :
        \/ Invoke(t)
        \/ LockGuard(t)
        \/ MaxSize(t)
        \/ Resize(t)
        \/ Push(t)
        \/ Return(t)

SpecGuard == InitGuard /\ [][NextGuard]_vars

\* ------------------------------------------- a ring swapped with itself
\* Thread 1 runs a.swap(a) or a = a twice while thread 2 pushes on ring a.
InitSelf ==
    /\ InitRings(ConstructedPlain)
    /\ InitIdle(1..2)
    /\ stop = FALSE
    /\ prog = [t \in 1..2 |-> IF t = 1 THEN [role |-> "self_pairs", limit |-> 2]
                              ELSE [role |-> "push_back", limit |-> 1]]

NextSelf ==
    \E t \in DOMAIN pc :
        \/ Invoke(t)
        \/ LockGuard(t)
        \/ SelfReturn(t)
        \/ Push(t)
        \/ Return(t)

SpecSelf == InitSelf /\ [][NextSelf]_vars /\ FairSteps(1..2)

\* ------------------------------------- a blocked consumer and a filled ring
\* Thread 1 makes one blocking pop (without the flag) on the empty ring a;
\* thread 2 makes ring a non-empty by one push, assign, swap with the
\* non-empty ring b or copy assignment from it.
InitWake ==
    /\ \E c \in 1..MaxCap :
        /\ storage = [r \in Rings |-> IF r = "a" THEN <<>>
                                      ELSE [i \in 1..MaxVal |-> i]]
        /\ capacity = [r \in Rings |-> IF r = "a" THEN c ELSE MaxVal]
    /\ InitIdle(1..2)
    /\ stop = FALSE
    /\ \E w \in WaitNames :
        prog = [t \in 1..2 |-> IF t = 1 THEN [role |-> w, limit |-> 1]
                              ELSE [role |-> "fills", limit |-> 1]]

NextWake ==
    \E t \in DOMAIN pc :
        \/ Invoke(t)
        \/ LockGuard(t)
        \/ ScopedLock(t)
        \/ Push(t)
        \/ Assign(t)
        \/ Swap(t)
        \/ CopyAssign(t)
        \/ WaitPred(t)
        \/ Spurious(t)
        \/ Reacquire(t)
        \/ Return(t)

SpecWake == InitWake /\ [][NextWake]_vars /\ FairSteps(1..2)

\* ------------------------------------------------------------------ claims
Min(x, y) == IF x <= y THEN x ELSE y
LastN(s, n) == SubSeq(s, Len(s) - n + 1, Len(s))
Reverse(s) == [i \in 1..Len(s) |-> s[Len(s) + 1 - i]]
Pushed(t) == [i \in 1..Len(log[t]) |-> log[t][i][1]]
Returned(t) == t \in DOMAIN pc /\ pc[t] = "ret"

\* C1: after every call returns, the number of stored elements of every ring
\* is at most its max_size().
SizeWithinCapacity ==
    \A r \in Rings : mutex[r] = NoThread => Len(storage[r]) <= capacity[r]

\* C2: push_back / emplace_back on a ring with n <= capacity elements appends
\* the value at the back and removes one element, the front one, exactly when
\* n = capacity; so k back pushes on an empty ring of capacity c >= 1 leave the
\* last min(k, c) pushed values in push order.
PushBackKeepsNewest ==
    \A t \in DOMAIN pc :
        /\ ( /\ Returned(t)
             /\ op[t].name \in {"push_back", "emplace_back"}
             /\ Len(pre[t].storage[op[t].ring]) <= pre[t].capacity[op[t].ring] )
           => LET r == op[t].ring
                  old == pre[t].storage[r]
                  all == old \o <<op[t].arg>>
              IN  /\ capacity[r] = pre[t].capacity[r]
                  /\ storage[r] = IF Len(old) = capacity[r]
                                  THEN SubSeq(all, 2, Len(all)) ELSE all
        /\ ( /\ pc[t] = "idle"
             /\ prog[t].role = "back_pushes"
             /\ capacity["a"] >= 1 )
           => storage["a"] = LastN(Pushed(t), Min(Len(log[t]), capacity["a"]))

PushBackOverflowReached ==
    /\ pc[1] = "idle"
    /\ prog[1].role = "back_pushes"
    /\ capacity["a"] = 3
    /\ Pushed(1) = <<1, 2, 3, 4>>
    /\ storage["a"] = <<2, 3, 4>>

\* C3: push_front / emplace_front on a ring with n <= capacity elements puts
\* the value at the front and removes one element, the back one, exactly when
\* n = capacity; so k front pushes on an empty ring of capacity c >= 1 leave,
\* front to back, the last min(k, c) pushed values in reverse push order.
PushFrontKeepsNewest ==
    \A t \in DOMAIN pc :
        /\ ( /\ Returned(t)
             /\ op[t].name \in {"push_front", "emplace_front"}
             /\ Len(pre[t].storage[op[t].ring]) <= pre[t].capacity[op[t].ring] )
           => LET r == op[t].ring
                  old == pre[t].storage[r]
                  all == <<op[t].arg>> \o old
              IN  /\ capacity[r] = pre[t].capacity[r]
                  /\ storage[r] = IF Len(old) = capacity[r]
                                  THEN SubSeq(all, 1, Len(all) - 1) ELSE all
        /\ ( /\ pc[t] = "idle"
             /\ prog[t].role = "front_pushes"
             /\ capacity["a"] >= 1 )
           => storage["a"] =
                 Reverse(LastN(Pushed(t), Min(Len(log[t]), capacity["a"])))

PushFrontOverflowReached ==
    /\ pc[1] = "idle"
    /\ prog[1].role = "front_pushes"
    /\ capacity["a"] = 3
    /\ Pushed(1) = <<1, 2, 3, 4>>
    /\ storage["a"] = <<4, 3, 2>>

\* C6: after a.swap(b) on two distinct rings, each ring has the contents and
\* the max_size() the other had before the call.
SwapExchangesContentsAndCapacity ==
    \A t \in DOMAIN pc :
        (Returned(t) /\ op[t].name = "swap" /\ op[t].ring # op[t].that)
        => /\ storage[op[t].ring] = pre[t].storage[op[t].that]
           /\ storage[op[t].that] = pre[t].storage[op[t].ring]
           /\ capacity[op[t].ring] = pre[t].capacity[op[t].that]
           /\ capacity[op[t].that] = pre[t].capacity[op[t].ring]

\* C4: pop_front() / pop_back() never wait in the condition variable and
\* leave the capacity alone; on an empty ring they return nullopt and leave
\* the contents empty, on a non-empty ring they return the element at the
\* named end and leave the other elements in their order.
PopTakesNamedEnd ==
    \A t \in DOMAIN pc :
        /\ op[t].name \in PopNames
           => /\ pc[t] \in {"call", "locked", "ret"}
              /\ wake[t] = "none"
              /\ \A r \in Rings : t \notin cvWaiters[r]
        /\ (Returned(t) /\ op[t].name \in PopNames)
           => LET r == op[t].ring
                  old == pre[t].storage[r]
              IN  /\ capacity[r] = pre[t].capacity[r]
                  /\ old = <<>> => ret[t] = <<>> /\ storage[r] = <<>>
                  /\ (old # <<>> /\ op[t].name = "pop_front")
                     => /\ ret[t] = <<old[1]>>
                        /\ storage[r] = SubSeq(old, 2, Len(old))
                  /\ (old # <<>> /\ op[t].name = "pop_back")
                     => /\ ret[t] = <<old[Len(old)]>>
                        /\ storage[r] = SubSeq(old, 1, Len(old) - 1)

\* one caller has popped nullopt from its empty ring while the other has
\* popped the 2 at the back of <<1, 2>>
PopBothCasesReached ==
    /\ Returned(1) /\ op[1].name = "pop_front"
    /\ pre[1].storage["a"] = <<>> /\ ret[1] = <<>>
    /\ Returned(2) /\ op[2].name = "pop_back"
    /\ pre[2].storage["b"] = <<1, 2>> /\ ret[2] = <<2>> /\ storage["b"] = <<1>>

\* the producer has pushed v at the front while the consumer was blocked; the
\* consumer has returned v after a notification
FrontWaits == {"pop_front_wait", "pop_front_wait_stop"}
PushedWhileBlocked(v) ==
    /\ Returned(2) /\ op[2].name \in {"push_front", "emplace_front"}
    /\ op[2].arg = v
    /\ capacity["a"] >= 1
    /\ op[1].name \in FrontWaits
    /\ pc[1] = "woken" /\ wake[1] = "notify"
ConsumerGot(v) ==
    /\ Returned(1) /\ op[1].name \in FrontWaits
    /\ ret[1] = <<v>> /\ wake[1] = "notify"

\* C5: when push_front(v) completes on a ring of capacity >= 1 while the only
\* consumer is blocked in pop_front_wait (with or without the flag), the
\* consumer is woken by the notification and eventually returns v.
PushFrontWakesConsumer ==
    /\ [][ ( /\ pc[2] = "locked" /\ pc'[2] = "ret"
             /\ op[2].name \in {"push_front", "emplace_front"}
             /\ op[1].name \in FrontWaits
             /\ 1 \in cvWaiters["a"] )
           => (pc'[1] = "woken" /\ wake'[1] = "notify") ]_vars
    /\ \A v \in Values : PushedWhileBlocked(v) ~> ConsumerGot(v)

ConsumerWokenReached ==
    \E v \in Values :
        /\ ConsumerGot(v)
        /\ op[1].name = "pop_front_wait"
        /\ prog[2].role = "push_front"
        /\ log[2] = << <<v>> >>

\* guard ownership of the pair operations, and their completion
OwnsBothOrNeither ==
    \A t \in DOMAIN pc : (mutex["a"] = t) <=> (mutex["b"] = t)
PairCallsDone ==
    \A t \in DOMAIN pc :
        prog[t].limit > 0 => (pc[t] = "idle" /\ Len(log[t]) = prog[t].limit)

\* C7: with one thread running a.swap(b) or a = b and another b.swap(a) or
\* b = a, a thread owns both guards or neither, and all the calls return.
OppositeSwapsReturn == []OwnsBothOrNeither /\ <>[]PairCallsDone

OppositeSwapsReached ==
    /\ PairCallsDone
    /\ prog[1].role = "swap_ab" /\ prog[2].role = "swap_ba"
    /\ Len(log[1]) = 2 /\ Len(log[2]) = 2

\* all producers and consumers are done and every value went to one consumer
StressDone ==
    /\ \A t \in DOMAIN pc : pc[t] = "idle" /\ Len(log[t]) = 1
    /\ storage["a"] = <<>>
    /\ \A p \in Producers : \E c \in Consumers : log[c] = << <<p>> >>
    /\ \A c \in Consumers : \E p \in Producers : log[c] = << <<p>> >>
    /\ \A c, d \in Consumers : log[c] = log[d] => c = d

\* nothing is invented or duplicated on the way
StressConserved ==
    LET held(c) == IF Returned(c) THEN ret[c]
                   ELSE IF log[c] # <<>> THEN log[c][1] ELSE <<>>
        inRing(p) == \E i \in 1..Len(storage["a"]) : storage["a"][i] = p
        owners(p) == {c \in Consumers : held(c) = <<p>>}
        pushed(p) == log[p] # <<>> \/ Returned(p)
    IN  /\ \A i \in 1..Len(storage["a"]) : storage["a"][i] \in Producers
        /\ \A c \in Consumers : held(c) # <<>> => held(c)[1] \in Producers
        /\ \A p \in Producers :
            IF pushed(p)
            THEN (inRing(p) /\ owners(p) = {})
                 \/ (~inRing(p) /\ Cardinality(owners(p)) = 1)
            ELSE ~inRing(p) /\ owners(p) = {}

\* C8: NPairs pushes at one end of a ring of capacity >= NPairs and NPairs
\* blocking pops at the same end all return, every pushed value is returned
\* by exactly one pop, and the ring ends empty.
StressTerminates == []StressConserved /\ <>[]StressDone

StressDoneReached ==
    /\ StressDone
    /\ prog[1].role = "produce_front"
    /\ log[NPairs + 1] = << <<NPairs>> >>

\* C9: every pop_front_wait(stop) / pop_back_wait(stop) call returns, whatever
\* the values of the flag during the call.
StopWaitReturns ==
    \A t \in Threads :
        (t \in DOMAIN pc /\ pc[t] = "call" /\ op[t].name \in StopWaitNames)
        ~> Returned(t)

\* a step of a flagged wait out of a predicate evaluation or a timeout
StopWaitStep(t) ==
    /\ op[t].name \in StopWaitNames
    /\ pc[t] \in {"locked", "timedout"}
    /\ pc'[t] # pc[t]

\* C10: in pop_*_wait(stop), a timeout with the ring empty and the flag false
\* returns nullopt and leaves the ring as it is; a predicate evaluation (at a
\* wake-up or after a timeout) that finds the ring non-empty returns the
\* element at the named end, whatever the flag.
StopWaitOutcome ==
    [][ \A t \in DOMAIN pc :
          StopWaitStep(t) =>
            LET r == op[t].ring
                old == storage[r]
            IN  /\ (pc[t] = "timedout" /\ old = <<>> /\ ~stop)
                   => /\ pc'[t] = "ret" /\ ret'[t] = <<>>
                      /\ storage' = storage /\ capacity' = capacity
                /\ (old # <<>> /\ op[t].name = "pop_front_wait_stop")
                   => /\ pc'[t] = "ret" /\ ret'[t] = <<old[1]>>
                      /\ storage'[r] = SubSeq(old, 2, Len(old))
                      /\ capacity' = capacity
                /\ (old # <<>> /\ op[t].name = "pop_back_wait_stop")
                   => /\ pc'[t] = "ret" /\ ret'[t] = <<old[Len(old)]>>
                      /\ storage'[r] = SubSeq(old, 1, Len(old) - 1)
                      /\ capacity' = capacity ]_vars

\* the first call timed out on the empty ring with the flag false and returned
\* nullopt; the second found the pushed element after a timeout, flag set
StopWaitBothReached ==
    /\ log[1] = << <<>> >>
    /\ Returned(1) /\ op[1].name = "pop_back_wait_stop"
    /\ wake[1] = "timeout" /\ pre[1].stop
    /\ pre[1].storage["a"] # <<>> /\ ret[1] = <<Back(pre[1].storage["a"])>>

\* C11: resize(n) on a ring with size <= capacity and n smaller than the
\* element count keeps exactly the first n elements, in order, and sets
\* max_size() to n.
ResizeDownKeepsHead ==
    \A t \in DOMAIN pc :
        ( /\ Returned(t) /\ op[t].name = "resize"
          /\ Len(pre[t].storage[op[t].ring]) <= pre[t].capacity[op[t].ring]
          /\ op[t].arg < Len(pre[t].storage[op[t].ring]) )
        => /\ storage[op[t].ring] =
                 SubSeq(pre[t].storage[op[t].ring], 1, op[t].arg)
           /\ capacity[op[t].ring] = op[t].arg

\* <<1, 2>> with capacity 2 has been resized to 1
ResizeDownReached ==
    /\ Returned(1) /\ op[1].name = "resize" /\ op[1].arg = 1
    /\ pre[1].storage["a"] = <<1, 2>> /\ pre[1].capacity["a"] = 2
    /\ storage["a"] = <<1>> /\ capacity["a"] = 1

\* C12: resize(n) with n greater than the capacity leaves the contents as
\* they are and sets max_size() to n, in the blocking and in the non-blocking
\* variant alike.
ResizeUpInsertsNothing ==
    \A t \in DOMAIN pc :
        ( /\ Returned(t) /\ op[t].name \in {"resize", "include_resize"}
          /\ op[t].arg > pre[t].capacity[op[t].ring] )
        => /\ storage[op[t].ring] = pre[t].storage[op[t].ring]
           /\ capacity[op[t].ring] = op[t].arg

\* a step of thread t that reads or writes the storage or the capacity of
\* the ring of its call
AccessStep(t) ==
    /\ pc'[t] # pc[t]
    /\ \/ pc[t] \in {"locked", "timedout"}
       \/ pc[t] = "call" /\ op[t].name = "max_size"

\* C13: every operation that reads or writes a ring's storage or capacity,
\* max_size() included, owns that ring's guard when it does, so no such
\* access is made while another thread is inside the guard about to write.
GuardHeldForAccess ==
    [][ \A t \in DOMAIN pc :
          AccessStep(t) =>
            /\ mutex[op[t].ring] = t
            /\ op[t].name \in PairNames => mutex[op[t].that] = t
            /\ Racing(t, op[t].ring) = {} ]_vars

\* C14: assign(first, last) makes the contents the elements of the range, in
\* order; max_size() becomes the new element count when that exceeds the
\* previous capacity and is otherwise unchanged, so size <= max_size().
AssignReplacesContents ==
    \A t \in DOMAIN pc :
        (Returned(t) /\ op[t].name = "assign")
        => LET r == op[t].ring
               old == pre[t].capacity[r]
           IN  /\ storage[r] = op[t].range
               /\ capacity[r] = IF Len(op[t].range) > old
                                THEN Len(op[t].range) ELSE old
               /\ Len(storage[r]) <= capacity[r]

\* a ring of capacity 1 holding <<1>> has been assigned <<2, 1>>
AssignGrowsReached ==
    /\ Returned(1) /\ op[1].name = "assign" /\ op[1].range = <<2, 1>>
    /\ pre[1].storage["a"] = <<1>> /\ pre[1].capacity["a"] = 1
    /\ storage["a"] = <<2, 1>> /\ capacity["a"] = 2

\* C17: shrink_to_fit() leaves the contents and their order as they are and
\* sets max_size() to the element count, so the push right after it leaves
\* the element count as it is, the value at the named end (of a non-empty
\* ring) and one element gone from the opposite end.
ShrinkThenPushEvicts ==
    \A t \in DOMAIN pc :
        /\ (Returned(t) /\ op[t].name = "shrink_to_fit")
           => /\ storage[op[t].ring] = pre[t].storage[op[t].ring]
              /\ capacity[op[t].ring] = Len(storage[op[t].ring])
        /\ ( /\ Returned(t) /\ prog[t].role = "shrinks" /\ Len(log[t]) = 2 )
           => LET old == pre[t].storage["a"]
                  v == op[t].arg
              IN  /\ capacity["a"] = Len(old)
                  /\ storage["a"] =
                        IF op[t].name \in {"push_front", "emplace_front"}
                        THEN DequePopBack(<<v>> \o old)
                        ELSE DequePopFront(old \o <<v>>)

\* Ring(2), push_back(1), shrink_to_fit(), push_front(2): the 1 is evicted
ShrinkThenPushReached ==
    /\ Returned(1) /\ prog[1].role = "shrinks" /\ Len(log[1]) = 2
    /\ op[1].name = "push_front" /\ op[1].arg = 2
    /\ pre[1].storage["a"] = <<1>> /\ log[1][1] = <<1>>
    /\ storage["a"] = <<2>> /\ capacity["a"] = 1

\* C19: the capacity of every ring is a positive integer in every reachable
\* state, so a pushed value is at the named end when the push returns.
CapacityPositive ==
    /\ \A r \in Rings : capacity[r] >= 1
    /\ \A t \in DOMAIN pc :
        (Returned(t) /\ op[t].name \in PushNames)
        => /\ storage[op[t].ring] # <<>>
           /\ op[t].arg = IF op[t].name \in {"push_front", "emplace_front"}
                          THEN Front(storage[op[t].ring])
                          ELSE Back(storage[op[t].ring])

\* C20: resize(n) on a ring with k <= capacity elements leaves the first
\* min(k, n) elements and adds none.
ResizeAddsNothing ==
    \A t \in DOMAIN pc :
        ( /\ Returned(t) /\ op[t].name = "resize"
          /\ Len(pre[t].storage[op[t].ring]) <= pre[t].capacity[op[t].ring] )
        => LET old == pre[t].storage[op[t].ring]
           IN  storage[op[t].ring] = SubSeq(old, 1, Min(Len(old), op[t].arg))
\* C15: a = b between two distinct rings makes a's contents equal to b's,
\* leaves a's max_size() as it was, and leaves b's contents and capacity
\* as they were.
CopyAssignCopiesContentsOnly ==
    \A t \in DOMAIN pc :
        (Returned(t) /\ op[t].name = "operator=" /\ op[t].ring # op[t].that)
        => /\ storage[op[t].ring] = pre[t].storage[op[t].that]
           /\ capacity[op[t].ring] = pre[t].capacity[op[t].ring]
           /\ storage[op[t].that] = pre[t].storage[op[t].that]
           /\ capacity[op[t].that] = pre[t].capacity[op[t].that]

\* a = b with a = Ring(0) and b = Ring{1, ..., MaxVal}
CopyAssignReached ==
    /\ Returned(1) /\ op[1].name = "operator="
    /\ pre[1].storage["a"] = <<>> /\ pre[1].capacity["a"] = 0
    /\ storage["b"] # <<>> /\ storage["a"] = storage["b"]
    /\ capacity["a"] = 0 /\ capacity["b"] = Len(storage["b"])

\* a.swap(a) or a = a is in progress in thread t
SelfPair(t) == op[t].name \in PairNames /\ op[t].ring = op[t].that

\* C16: a.swap(a) and a = a return without acquiring the guard and leave
\* the contents and the capacity of the ring as they are; they always return.
SelfPairReturns ==
    /\ [](\A t \in DOMAIN pc : SelfPair(t) => mutex[op[t].ring] # t)
    /\ [][ \A t \in DOMAIN pc :
             (SelfPair(t) /\ pc[t] = "call" /\ pc'[t] # "call")
             => /\ pc'[t] = "ret"
                /\ mutex' = mutex
                /\ storage' = storage /\ capacity' = capacity ]_vars
    /\ \A t \in 1..2 :
          (t \in DOMAIN pc /\ SelfPair(t) /\ pc[t] = "call") ~> Returned(t)

\* the second self call has returned while the producer owns the guard
SelfPairReached ==
    /\ Returned(1) /\ SelfPair(1) /\ op[1].name = "swap"
    /\ Len(log[1]) = 1
    /\ mutex["a"] = 2 /\ pc[2] = "locked"

\* C18: a consumer blocked in pop_front_wait() / pop_back_wait() on ring a
\* eventually returns an element once the ring has become non-empty,
\* whichever operation filled it.
BlockedConsumerReturns ==
    (pc[1] \in {"waiting", "woken"} /\ storage["a"] # <<>>)
    ~> (Returned(1) /\ ret[1] # <<>>)
====
